---- MODULE Spec2Model ----
(***************************************************************************)
(* Model of src/xml_to_csv_ftp.py: the substring-search XML helpers        *)
(* (decode_xml, tag_value, all_tag_values, get_program_url,                *)
(* get_points_forts, clean_text, build_program_arguments,                  *)
(* get_program_image, cut) and the parse_xml scan loop.                    *)
(*                                                                         *)
(* Text is a sequence of one-character strings.  Offsets are 0-based and   *)
(* slices are half-open, as in Python, so that the arithmetic of the       *)
(* source (s += len(o), e + 15, end + 10 ...) is kept as written.          *)
(***************************************************************************)
EXTENDS Integers, Sequences, FiniteSets, TLC

VARIABLES
  doc,          \* the blocks and the tail the input document is made of
  raw,          \* parse_xml: the document text
  pc,           \* parse_xml: "start", "scan", "filter", "done" ("idle": not called)
  block_start,  \* parse_xml: the scan cursor
  scanned, skipped, dup_skipped,
  dedup,        \* parse_xml: the keys seen
  programs,     \* parse_xml: the records emitted
  cur,          \* parse_xml: ps, pe and the fields extracted from the block
  log,          \* history: ref, url and verdict of every block scanned
  origin,       \* history: for every record, the number of the block it is from
  dpc, dx, dy, dz   \* the decoder driver: position, input, first and second result

parseVars ==
  <<doc, raw, pc, block_start, scanned, skipped, dup_skipped, dedup, programs,
    cur, log, origin>>

decodeVars == <<dpc, dx, dy, dz>>

vars == <<parseVars, decodeVars>>

----------------------------------------------------------------------------
(* Python str primitives *)

\* characters matched by \s and removed by str.strip()
WS == {" ", "\n", "\t"}

Min(S) == CHOOSE i \in S : \A j \in S : i <= j

\* s[a:b]
Slice(s, a, b) == SubSeq(s, a + 1, IF b > Len(s) THEN Len(s) ELSE b)

\* s.find(pat, start): the lowest offset >= start at which pat occurs, or -1.
\* The offset one past the last candidate stands for "not found".
Find(s, pat, start) ==
  LET hi == Len(s) - Len(pat)
      stop == IF hi + 1 < start THEN start ELSE hi + 1
      i == CHOOSE k \in start..stop :
             /\ k = stop \/ (s[k + 1] = pat[1] /\ SubSeq(s, k + 1, k + Len(pat)) = pat)
             /\ \A j \in start..(k - 1) :
                  ~(s[j + 1] = pat[1] /\ SubSeq(s, j + 1, j + Len(pat)) = pat)
  IN  IF i = stop THEN -1 ELSE i

\* s.rfind(pat, start, end): the highest offset at which pat occurs within
\* s[start:end], or -1.  The offset one before start stands for "not found".
RFind(s, pat, start, end) ==
  LET hi == end - Len(pat)
      stop == start - 1
      i == CHOOSE k \in stop..hi :
             /\ k = stop \/ (s[k + 1] = pat[1] /\ SubSeq(s, k + 1, k + Len(pat)) = pat)
             /\ \A j \in (k + 1)..hi :
                  ~(s[j + 1] = pat[1] /\ SubSeq(s, j + 1, j + Len(pat)) = pat)
  IN  IF hi < start \/ i = stop THEN -1 ELSE i

\* pat in s
Contains(s, pat) == Find(s, pat, 0) >= 0

\* s.replace(pat, rep)
RECURSIVE Replace(_, _, _)
Replace(s, pat, rep) ==
  LET i == Find(s, pat, 0)
  IN  IF i < 0 THEN s
      ELSE Slice(s, 0, i) \o rep \o Replace(Slice(s, i + Len(pat), Len(s)), pat, rep)

\* s.strip()
Strip(s) ==
  LET n == Len(s)
      first == CHOOSE i \in 1..n :
                 s[i] \notin WS /\ \A j \in 1..(i - 1) : s[j] \in WS
      last == CHOOSE i \in 1..n :
                s[i] \notin WS /\ \A j \in (i + 1)..n : s[j] \in WS
  IN  IF \A i \in 1..n : s[i] \in WS THEN <<>> ELSE SubSeq(s, first, last)

\* re.sub(r"\s+", " ", s)
CollapseWs(s) ==
  LET tagged == [i \in 1..Len(s) |->
                   IF s[i] \in WS
                   THEN <<" ", i = 1 \/ s[i - 1] \notin WS>>
                   ELSE <<s[i], TRUE>>]
      kept == SelectSeq(tagged, LAMBDA t : t[2])
  IN  [i \in 1..Len(kept) |-> kept[i][1]]

CDATA_OPEN == <<"<", "!", "[", "C", "D", "A", "T", "A", "[">>

CDATA_CLOSE == <<"]", "]", ">">>

\* re.sub(r"<!\[CDATA\[([\s\S]*?)\]\]>", r"\1", v): leftmost opener, nearest
\* closer after it, the wrapper replaced by its content, the scan resuming
\* after the closer
RECURSIVE SubCdata(_)
SubCdata(v) ==
  LET i == Find(v, CDATA_OPEN, 0)
      j == IF i < 0 THEN -1 ELSE Find(v, CDATA_CLOSE, i + Len(CDATA_OPEN))
  IN  IF j < 0 THEN v
      ELSE Slice(v, 0, i) \o Slice(v, i + Len(CDATA_OPEN), j)
             \o SubCdata(Slice(v, j + Len(CDATA_CLOSE), Len(v)))

\* re.sub(r"<[^>]*>", " ", v)
RECURSIVE SubMarkup(_)
SubMarkup(v) ==
  LET i == Find(v, <<"<">>, 0)
      j == IF i < 0 THEN -1 ELSE Find(v, <<">">>, i + 1)
  IN  IF j < 0 THEN v
      ELSE Slice(v, 0, i) \o <<" ">> \o SubMarkup(Slice(v, j + 1, Len(v)))

----------------------------------------------------------------------------
(* XML helpers *)

ENT_LT == <<"&", "l", "t", ";">>

ENT_GT == <<"&", "g", "t", ";">>

ENT_AMP == <<"&", "a", "m", "p", ";">>

ENT_QUOT == <<"&", "q", "u", "o", "t", ";">>

ENT_APOS == <<"&", "#", "3", "9", ";">>

\* decode_xml with the whitespace normalised before the wrappers and the
\* escapes are replaced instead of after
decode_xml_ws_first(v) ==
  IF v = <<>> THEN <<>>
  ELSE LET v0 == Strip(CollapseWs(v))
           v1 == SubCdata(v0)
           v2 == Replace(Replace(v1, ENT_LT, <<"<">>), ENT_GT, <<">">>)
           v3 == Replace(Replace(v2, ENT_AMP, <<"&">>), ENT_QUOT, <<"\"">>)
       IN  Replace(v3, ENT_APOS, <<"'">>)

decode_xml(v) ==
  IF v = <<>> THEN <<>>
  ELSE LET v1 == SubCdata(v)
           v2 == Replace(Replace(v1, ENT_LT, <<"<">>), ENT_GT, <<">">>)
           v3 == Replace(Replace(v2, ENT_AMP, <<"&">>), ENT_QUOT, <<"\"">>)
           v4 == Replace(v3, ENT_APOS, <<"'">>)
       IN  Strip(CollapseWs(v4))

OpenTag(tag) == <<"<">> \o tag \o <<">">>

CloseTag(tag) == <<"<", "/">> \o tag \o <<">">>

T_PROGRAMME ==
  <<"P", "R", "O", "G", "R", "A", "M", "M", "E">>

T_REPONSE ==
  <<"R", "E", "P", "O", "N", "S", "E">>

T_REF_OPERATION ==
  <<"R", "E", "F", "_", "O", "P", "E", "R", "A", "T", "I", "O", "N">>

T_NUMERO ==
  <<"N", "U", "M", "E", "R", "O">>

T_NOM ==
  <<"N", "O", "M">>

T_VILLE ==
  <<"V", "I", "L", "L", "E">>

T_CP ==
  <<"C", "P">>

T_DEPARTEMENT ==
  <<"D", "E", "P", "A", "R", "T", "E", "M", "E", "N", "T">>

T_URL ==
  <<"U", "R", "L">>

T_PF ==
  <<"P", "F">>

T_POINTS_FORTS ==
  <<"P", "O", "I", "N", "T", "S", "_", "F", "O", "R", "T", "S">>

T_PERSPECTIVES ==
  <<"P", "E", "R", "S", "P", "E", "C", "T", "I", "V", "E", "S">>

T_PROMESSE_PROGRAMME ==
  <<"P", "R", "O", "M", "E", "S", "S", "E", "_", "P", "R", "O", "G", "R",
    "A", "M", "M", "E">>

T_DESCRIPTIF_COURT ==
  <<"D", "E", "S", "C", "R", "I", "P", "T", "I", "F", "_", "C", "O", "U",
    "R", "T">>

T_DESCRIPTIF_LONG ==
  <<"D", "E", "S", "C", "R", "I", "P", "T", "I", "F", "_", "L", "O", "N",
    "G">>

T_DESCRIPTIF_CENTRE_D_APPEL ==
  <<"D", "E", "S", "C", "R", "I", "P", "T", "I", "F", "_", "C", "E", "N",
    "T", "R", "E", "_", "D", "_", "A", "P", "P", "E", "L">>

MARKER ==
  <<"/", "p", "r", "o", "g", "r", "a", "m", "m", "e", "-", "n", "e", "u",
    "f", "-">>

NO_IMAGE == <<"N", "O", " ", "I", "M", "A", "G", "E">>

NA == <<"N", "/", "A">>

KEY_SEP == <<"|", "|">>

PF_SEP == <<" ", "|", " ">>

tag_value(xml, tag) ==
  LET o == OpenTag(tag)
      c == CloseTag(tag)
      s0 == Find(xml, o, 0)
      s == s0 + Len(o)
      e == IF s0 < 0 THEN -1 ELSE Find(xml, c, s)
  IN  IF s0 < 0 \/ e < 0 THEN <<>> ELSE decode_xml(Slice(xml, s, e))

\* the while loop of all_tag_values, entered with cursor p
RECURSIVE all_tag_values_from(_, _, _)
all_tag_values_from(xml, tag, p) ==
  LET o == OpenTag(tag)
      c == CloseTag(tag)
      s0 == Find(xml, o, p)
      s == s0 + Len(o)
      e == IF s0 < 0 THEN -1 ELSE Find(xml, c, s)
  IN  IF s0 < 0 \/ e < 0 THEN <<>>
      ELSE <<decode_xml(Slice(xml, s, e))>>
             \o all_tag_values_from(xml, tag, e + Len(c))

all_tag_values(xml, tag) == all_tag_values_from(xml, tag, 0)

get_program_url(program_xml) ==
  LET hit == Find(program_xml, MARKER, 0)
      s0 == IF hit < 0 THEN -1 ELSE RFind(program_xml, OpenTag(T_URL), 0, hit)
      s == s0 + 5
      e == IF s0 < 0 THEN -1 ELSE Find(program_xml, CloseTag(T_URL), s)
  IN  IF hit < 0 \/ s0 < 0 \/ e < 0 THEN <<>>
      ELSE decode_xml(Slice(program_xml, s, e))

\* get_points_forts collecting <PF> over the whole block instead of the
\* <POINTS_FORTS> span
get_points_forts_unscoped(program_xml) ==
  LET s == Find(program_xml, OpenTag(T_POINTS_FORTS), 0)
      e == IF s < 0 THEN -1 ELSE Find(program_xml, CloseTag(T_POINTS_FORTS), s)
  IN  IF s < 0 \/ e < 0 THEN <<>>
      ELSE all_tag_values(program_xml, T_PF)

get_points_forts(program_xml) ==
  LET s == Find(program_xml, OpenTag(T_POINTS_FORTS), 0)
      e == IF s < 0 THEN -1 ELSE Find(program_xml, CloseTag(T_POINTS_FORTS), s)
  IN  IF s < 0 \/ e < 0 THEN <<>>
      ELSE all_tag_values(Slice(program_xml, s, e + 15), T_PF)

clean_text(v) == Strip(CollapseWs(SubMarkup(decode_xml(v))))

\* sep.join(items)
RECURSIVE Join(_, _)
Join(items, sep) ==
  IF items = <<>> THEN <<>>
  ELSE IF Len(items) = 1 THEN items[1]
  ELSE items[1] \o sep \o Join(Tail(items), sep)

\* the candidates of build_program_arguments, in the order they are tried
Candidates(program_xml, program_name) ==
  << tag_value(program_xml, T_PROMESSE_PROGRAMME),
     tag_value(program_xml, T_DESCRIPTIF_COURT),
     tag_value(program_xml, T_DESCRIPTIF_LONG),
     tag_value(program_xml, T_DESCRIPTIF_CENTRE_D_APPEL),
     program_name >>

\* the for loop over the candidates: the first one that is non-empty once
\* cleaned, else "N/A"
FirstCleaned(candidates) ==
  LET good == {i \in 1..Len(candidates) : clean_text(candidates[i]) # <<>>}
  IN  IF good = {} THEN NA ELSE clean_text(candidates[Min(good)])

build_program_arguments(program_xml, program_name) ==
  LET pfs == get_points_forts(program_xml)
  IN  IF pfs # <<>> THEN clean_text(Join(pfs, PF_SEP))
      ELSE FirstCleaned(Candidates(program_xml, program_name))

get_program_image(program_xml) ==
  LET s == Find(program_xml, OpenTag(T_PERSPECTIVES), 0)
      e == IF s < 0 THEN -1 ELSE Find(program_xml, CloseTag(T_PERSPECTIVES), s)
      urls == all_tag_values(Slice(program_xml, s, e + 15), T_URL)
  IN  IF s < 0 \/ e < 0 THEN NO_IMAGE
      ELSE IF urls # <<>> /\ urls[1] # <<>> THEN urls[1]
      ELSE NO_IMAGE

cut(v, n) == IF Len(v) > n THEN Slice(v, 0, n) ELSE v

----------------------------------------------------------------------------
(* Input documents: up to MaxBlocks <PROGRAMME> blocks taken from Blocks,   *)
(* or up to MaxKeyBlocks blocks taken from KeyBlocks (the blocks whose keys *)
(* repeat or collide), followed by nothing, by an unclosed <PROGRAMME>, or  *)
(* by </REPONSE> and text after it                                          *)

MaxBlocks == 2

MaxKeyBlocks == 3

Rep(c, n) == [i \in 1..n |-> c]

Element(tag, value) == OpenTag(tag) \o value \o CloseTag(tag)

RECURSIVE Elements(_, _)
Elements(tag, values) ==
  IF values = <<>> THEN <<>>
  ELSE Element(tag, Head(values)) \o Elements(tag, Tail(values))

\* a block with nothing in it; every field lists the values of its elements
Empty ==
  [ ref_op |-> <<>>, numero |-> <<>>, nom |-> <<>>, ville |-> <<>>, cp |-> <<>>,
    dept |-> <<>>, pf_out |-> <<>>, points_forts |-> <<>>,
    perspectives |-> <<>>, url |-> <<>>, promesse |-> <<>>, court |-> <<>>,
    long |-> <<>>, appel |-> <<>> ]

Located == [Empty EXCEPT !.ville = <<<<"V">>>>, !.cp = <<<<"7">>>>,
                         !.dept = <<<<"7", "5">>>>]

Url1 == MARKER \o <<"1">>

LongRef == Rep("R", 50)

LongUrl == Rep("h", 490) \o Url1

Blocks ==
  << \* 1: complete, two highlights, one image
     [Located EXCEPT !.ref_op = <<<<"A">>>>, !.nom = <<<<" ", "N", "\n">>>>,
                     !.pf_out = <<<<"X">>>>,
                     !.points_forts = << << <<"P">>, <<"G">> >> >>,
                     !.court = <<<<"C">>>>,
                     !.perspectives = << << <<"i">> >> >>,
                     !.url = <<Url1>>],
     \* 2: same ref (from NUMERO) and url as 1, descriptions instead of highlights
     [Located EXCEPT !.ref_op = <<<<>>>>, !.numero = <<<<"A">>>>,
                     !.nom = <<<<"M">>>>, !.pf_out = <<<<"X">>>>,
                     !.promesse = <<ENT_LT \o <<"b", "r", "/">> \o ENT_GT>>,
                     !.court = <<CDATA_OPEN \o <<"C">> \o CDATA_CLOSE>>,
                     !.url = <<Url1>>],
     \* 3: ref ends with the key separator; an empty highlight, an empty image
     [Located EXCEPT !.ref_op = <<<<"A">> \o KEY_SEP>>, !.nom = <<<<"N">>>>,
                     !.points_forts = << << <<>> >> >>,
                     !.perspectives = << << <<>> >> >>,
                     !.url = <<Url1>>],
     \* 4: url starts with the key separator; a markup-only highlight, an
     \*    empty image followed by a real one
     [Located EXCEPT !.ref_op = <<<<"A">>>>, !.nom = <<<<"N">>>>,
                     !.points_forts = << << ENT_LT \o <<"b">> \o ENT_GT >> >>,
                     !.perspectives = << << <<>>, <<"i">> >> >>,
                     !.url = <<KEY_SEP \o Url1>>],
     \* 5, 6: refs of 51 characters that differ in the last one, a url of 507
     [Located EXCEPT !.ref_op = <<LongRef \o <<"1">>>>, !.nom = <<<<"N">>>>,
                     !.points_forts = << <<>> >>,
                     !.long = <<<<"L">>>>,
                     !.perspectives = << << <<"i">>, <<"j">> >> >>,
                     !.url = <<LongUrl>>],
     [Located EXCEPT !.ref_op = <<LongRef \o <<"2">>>>, !.nom = <<<<"N">>>>,
                     !.url = <<LongUrl>>],
     \* 7: no name, no highlights, no description
     [Located EXCEPT !.ref_op = <<<<"A">>>>, !.url = <<Url1>>],
     \* 8: the marker occurs after the <URL> element, not in it
     [Located EXCEPT !.ref_op = <<<<"B">>>>, !.nom = <<<<"N">>>>,
                     !.url = <<<<"h">>>>,
                     !.court = <<MARKER \o <<"2">>>>] >>

\* the elements of a block, without the <PROGRAMME> markers
RenderFields(b) ==
  Elements(T_REF_OPERATION, b.ref_op) \o Elements(T_NUMERO, b.numero)
    \o Elements(T_NOM, b.nom) \o Elements(T_VILLE, b.ville)
    \o Elements(T_CP, b.cp) \o Elements(T_DEPARTEMENT, b.dept)
    \o Elements(T_PF, b.pf_out)
    \o (IF b.points_forts = <<>> THEN <<>>
        ELSE Element(T_POINTS_FORTS, Elements(T_PF, b.points_forts[1])))
    \o (IF b.perspectives = <<>> THEN <<>>
        ELSE Element(T_PERSPECTIVES, Elements(T_URL, b.perspectives[1])))
    \o Elements(T_URL, b.url)
    \o Elements(T_PROMESSE_PROGRAMME, b.promesse)
    \o Elements(T_DESCRIPTIF_COURT, b.court)
    \o Elements(T_DESCRIPTIF_LONG, b.long)
    \o Elements(T_DESCRIPTIF_CENTRE_D_APPEL, b.appel)

RenderBlock(b) == Element(T_PROGRAMME, RenderFields(b))

Tails == {"none", "open", "reponse"}

RenderTail(t) ==
  CASE t = "none" -> <<>>
    [] t = "open" -> OpenTag(T_PROGRAMME) \o RenderFields(Blocks[1])
    [] t = "reponse" -> CloseTag(T_REPONSE) \o RenderBlock(Blocks[1])

RECURSIVE RenderBlocks(_)
RenderBlocks(ks) ==
  IF ks = <<>> THEN <<>>
  ELSE RenderBlock(Blocks[Head(ks)]) \o RenderBlocks(Tail(ks))

RenderDoc(d) == RenderBlocks(d.blocks) \o RenderTail(d.tail)

\* blocks 1 and 2 have the same ref and url; the concatenations ref || url of
\* blocks 3 and 4 are the same text
KeyBlocks == {1, 2, 3, 4}

Docs ==
  { [blocks |-> ks, tail |-> t] :
      ks \in UNION ( {[1..n -> 1..Len(Blocks)] : n \in 0..MaxBlocks}
                       \cup {[1..n -> KeyBlocks] : n \in 0..MaxKeyBlocks} ),
      t \in Tails }

----------------------------------------------------------------------------
(* parse_xml *)

NoFields ==
  [ ps |-> 0, pe |-> 0, program_ref |-> <<>>, program_name |-> <<>>,
    city |-> <<>>, zip_code |-> <<>>, dept |-> <<>>, program_url |-> <<>>,
    program_arguments |-> <<>>, program_image |-> <<>> ]

Idle ==
  /\ doc = [blocks |-> <<>>, tail |-> "none"]
  /\ raw = <<>>
  /\ pc = "idle"
  /\ block_start = 0
  /\ scanned = 0
  /\ skipped = 0
  /\ dup_skipped = 0
  /\ dedup = {}
  /\ programs = <<>>
  /\ cur = NoFields
  /\ log = <<>>
  /\ origin = <<>>

DecodeIdle ==
  /\ dpc = "idle"
  /\ dx = <<>>
  /\ dy = <<>>
  /\ dz = <<>>

Init ==
  /\ doc \in Docs
  /\ raw = RenderDoc(doc)
  /\ pc = "start"
  /\ block_start = 0
  /\ scanned = 0
  /\ skipped = 0
  /\ dup_skipped = 0
  /\ dedup = {}
  /\ programs = <<>>
  /\ cur = NoFields
  /\ log = <<>>
  /\ origin = <<>>
  /\ DecodeIdle

\* raw after the safety cut at </REPONSE>
SafetyCutText(text) ==
  LET end == Find(text, CloseTag(T_REPONSE), 0)
  IN  IF end > -1 THEN Slice(text, 0, end + 10) ELSE text

SafetyCut ==
  /\ pc = "start"
  /\ raw' = SafetyCutText(raw)
  /\ pc' = "scan"
  /\ UNCHANGED <<doc, block_start, scanned, skipped, dup_skipped, dedup,
                 programs, cur, log, origin, decodeVars>>

open_tag == OpenTag(T_PROGRAMME)

close_tag == CloseTag(T_PROGRAMME)

\* ps: where the next block opens, or -1
NextOpen == Find(raw, open_tag, block_start)

\* raw.find(close_tag, ps)
NextClose(ps) == Find(raw, close_tag, ps)

\* pe left at the start of the close marker
BlockEnd_at_close(pe) == pe

\* pe after pe += len(close_tag)
BlockEnd(pe) == pe + Len(close_tag)

program_ref_of(p) ==
  IF tag_value(p, T_REF_OPERATION) # <<>> THEN tag_value(p, T_REF_OPERATION)
  ELSE tag_value(p, T_NUMERO)

\* the fields parse_xml extracts from the block text p
ExtractFields(p) ==
  LET program_name == tag_value(p, T_NOM)
  IN  [ program_ref |-> program_ref_of(p),
        program_name |-> program_name,
        city |-> tag_value(p, T_VILLE),
        zip_code |-> tag_value(p, T_CP),
        dept |-> tag_value(p, T_DEPARTEMENT),
        program_url |-> get_program_url(p),
        program_arguments |-> build_program_arguments(p, program_name),
        program_image |-> get_program_image(p) ]

\* ExtractFields tabulated once for the block texts of Docs (a memo table:
\* FieldsTable[p] = ExtractFields(p) by definition)
FieldsTable ==
  [p \in {RenderBlock(Blocks[k]) : k \in 1..Len(Blocks)} |-> ExtractFields(p)]

\* the fields of the block text p
Fields(p) == IF p \in DOMAIN FieldsTable THEN FieldsTable[p] ELSE ExtractFields(p)

\* the locals of one loop iteration over the block raw[ps:pe]
Extract(ps, pe) == [ps |-> ps, pe |-> pe] @@ Fields(Slice(raw, ps, pe))

NoOpen ==
  /\ pc = "scan"
  /\ NextOpen < 0
  /\ pc' = "done"
  /\ UNCHANGED <<doc, raw, block_start, scanned, skipped, dup_skipped, dedup,
                 programs, cur, log, origin, decodeVars>>

NoClose ==
  /\ pc = "scan"
  /\ NextOpen >= 0
  /\ NextClose(NextOpen) < 0
  /\ pc' = "done"
  /\ UNCHANGED <<doc, raw, block_start, scanned, skipped, dup_skipped, dedup,
                 programs, cur, log, origin, decodeVars>>

ScanBlock ==
  /\ pc = "scan"
  /\ LET ps == NextOpen
         found == IF ps < 0 THEN -1 ELSE NextClose(ps)
         pe == BlockEnd(found)
     IN  /\ ps >= 0
         /\ found >= 0
         /\ block_start' = pe
         /\ cur' = Extract(ps, pe)
  /\ scanned' = scanned + 1
  /\ pc' = "filter"
  /\ UNCHANGED <<doc, raw, skipped, dup_skipped, dedup, programs, log, origin,
                 decodeVars>>

\* the required-field test without the name
MissingField_skip_name(f) ==
  \/ f.program_ref = <<>>
  \/ f.city = <<>>
  \/ f.zip_code = <<>>
  \/ f.dept = <<>>
  \/ f.program_url = <<>>

\* not all([program_ref, program_name, city, zip_code, dept, program_url])
MissingField(f) ==
  \/ f.program_ref = <<>>
  \/ f.program_name = <<>>
  \/ f.city = <<>>
  \/ f.zip_code = <<>>
  \/ f.dept = <<>>
  \/ f.program_url = <<>>

MarkerAbsent(f) == ~Contains(f.program_url, MARKER)

unique_key(f) == f.program_ref \o KEY_SEP \o f.program_url

\* the record appended to programs (Scraping_Date, the wall-clock time of the
\* iteration, is left out)
Record(f) ==
  [ Program_URL |-> cut(f.program_url, 500),
    Program_Ref |-> cut(f.program_ref, 50),
    Program_Name |-> cut(f.program_name, 255),
    Program_City |-> cut(f.city, 100),
    Program_ZipCode |-> cut(f.zip_code, 10),
    Program_Department |-> cut(f.dept, 2),
    Program_Arguments |-> cut(f.program_arguments, 4000),
    Scraping_Status |-> "SUCCESS",
    Error_Message |-> <<>>,
    Program_Image |-> cut(IF f.program_image # <<>> THEN f.program_image
                          ELSE NO_IMAGE, 500) ]

Logged(verdict) ==
  log' = Append(log, [ref |-> cur.program_ref, url |-> cur.program_url,
                      verdict |-> verdict])

RejectMissing ==
  /\ pc = "filter"
  /\ MissingField(cur)
  /\ skipped' = skipped + 1
  /\ pc' = "scan"
  /\ Logged("missing")
  /\ UNCHANGED <<doc, raw, block_start, scanned, dup_skipped, dedup, programs,
                 cur, origin, decodeVars>>

RejectMarker ==
  /\ pc = "filter"
  /\ ~MissingField(cur)
  /\ MarkerAbsent(cur)
  /\ skipped' = skipped + 1
  /\ pc' = "scan"
  /\ Logged("marker")
  /\ UNCHANGED <<doc, raw, block_start, scanned, dup_skipped, dedup, programs,
                 cur, origin, decodeVars>>

RejectDuplicate ==
  /\ pc = "filter"
  /\ ~MissingField(cur)
  /\ ~MarkerAbsent(cur)
  /\ unique_key(cur) \in dedup
  /\ dup_skipped' = dup_skipped + 1
  /\ pc' = "scan"
  /\ Logged("duplicate")
  /\ UNCHANGED <<doc, raw, block_start, scanned, skipped, dedup, programs, cur,
                 origin, decodeVars>>

Accept ==
  /\ pc = "filter"
  /\ ~MissingField(cur)
  /\ ~MarkerAbsent(cur)
  /\ unique_key(cur) \notin dedup
  /\ dedup' = dedup \cup {unique_key(cur)}
  /\ programs' = Append(programs, Record(cur))
  /\ origin' = Append(origin, scanned)
  /\ pc' = "scan"
  /\ Logged("accepted")
  /\ UNCHANGED <<doc, raw, block_start, scanned, skipped, dup_skipped, cur,
                 decodeVars>>

Next ==
  \/ SafetyCut
  \/ NoOpen
  \/ NoClose
  \/ ScanBlock
  \/ RejectMissing
  \/ RejectMarker
  \/ RejectDuplicate
  \/ Accept

Spec == Init /\ [][Next]_vars

----------------------------------------------------------------------------
(* Decoder driver: decode a text, then decode the result again *)

MaxChunks == 3

Chunks ==
  { ENT_AMP, ENT_LT, <<"l", "t", ";">>, <<"&">>, <<" ">>, <<"\n">>, <<"x">>,
    CDATA_OPEN, CDATA_CLOSE, ENT_QUOT }

RECURSIVE Texts(_)
Texts(n) ==
  IF n = 0 THEN {<<>>}
  ELSE LET shorter == Texts(n - 1)
       IN  shorter \cup {t \o c : t \in shorter, c \in Chunks}

DecodeInit ==
  /\ Idle
  /\ dpc = "start"
  /\ dx \in Texts(MaxChunks)
  /\ dy = <<>>
  /\ dz = <<>>

DecodeOnce ==
  /\ dpc = "start"
  /\ dy' = decode_xml(dx)
  /\ dpc' = "once"
  /\ UNCHANGED <<dx, dz, parseVars>>

DecodeTwice ==
  /\ dpc = "once"
  /\ dz' = decode_xml(dy)
  /\ dpc' = "twice"
  /\ UNCHANGED <<dx, dy, parseVars>>

DecodeNext == DecodeOnce \/ DecodeTwice

SpecDecode == DecodeInit /\ [][DecodeNext]_vars

----------------------------------------------------------------------------
(* Properties *)

\* the block of the document that the loop is filtering
CurrentBlock == Blocks[doc.blocks[scanned]]

\* the blocks that passed the required-field and the marker checks
Validated(i) == log[i].verdict \in {"accepted", "duplicate"}

SamePair(i, j) == log[i].ref = log[j].ref /\ log[i].url = log[j].url

\* C1: no two records returned by one parse_xml run have the same
\* (Program_Ref, Program_URL) pair, compared on the values as emitted, that
\* is, after the truncation to 50 and 500 characters.
C1_EmittedPairsUnique ==
  \A i, j \in 1..Len(programs) :
    i # j => \/ programs[i].Program_Ref # programs[j].Program_Ref
             \/ programs[i].Program_URL # programs[j].Program_URL

\* C2: when several validated blocks share the same (ref, url), exactly one
\* record is emitted for them, it is built from the first of them, every
\* later one counts as one duplicate, and the records are in block order.
C2_FirstOccurrenceWins ==
  /\ \A i \in 1..Len(log) :
       LET same == {j \in 1..Len(log) : Validated(j) /\ SamePair(i, j)}
           recs == {k \in 1..Len(programs) : origin[k] \in same}
       IN  Validated(i) /\ Cardinality(same) >= 2 =>
             /\ Cardinality(recs) = 1
             /\ \A k \in recs : origin[k] = Min(same)
             /\ \A j \in same \ {Min(same)} : log[j].verdict = "duplicate"
  /\ dup_skipped = Cardinality({i \in 1..Len(log) : log[i].verdict = "duplicate"})
  /\ \A k \in 1..(Len(origin) - 1) : origin[k] < origin[k + 1]

AnyCoreFieldEmpty(f) ==
  \E v \in {f.program_ref, f.program_name, f.city, f.zip_code, f.dept,
            f.program_url} : v = <<>>

\* C3: a block in which one of ref, name, city, zipCode, department, url is
\* empty after extraction appends no record, adds exactly 1 to the skip
\* counter, leaves the duplicate counter and the deduplication set alone, and
\* the loop goes on with the next block.
C3_MissingFieldSkipped ==
  [][ pc = "filter" /\ AnyCoreFieldEmpty(cur) =>
        /\ programs' = programs
        /\ skipped' = skipped + 1
        /\ dup_skipped' = dup_skipped
        /\ dedup' = dedup
        /\ scanned' = scanned
        /\ block_start' = block_start
        /\ pc' = "scan" ]_vars

C3_Witness ==
  /\ pc = "scan"
  /\ Len(log) = 2
  /\ log[1].verdict = "accepted"
  /\ log[2].verdict = "missing"
  /\ doc.blocks[2] = 7
  /\ skipped = 1
  /\ Len(programs) = 1

\* C4: every emitted record has a Program_URL containing "/programme-neuf-"
\* and non-empty Program_Ref, Program_Name, Program_City, Program_ZipCode,
\* Program_Department and Program_URL.
C4_MarkerInEmittedUrl ==
  \A k \in 1..Len(programs) :
    /\ Contains(programs[k].Program_URL, MARKER)
    /\ programs[k].Program_Ref # <<>>
    /\ programs[k].Program_Name # <<>>
    /\ programs[k].Program_City # <<>>
    /\ programs[k].Program_ZipCode # <<>>
    /\ programs[k].Program_Department # <<>>
    /\ programs[k].Program_URL # <<>>

UnmatchedOpen == NextOpen >= 0 /\ NextClose(NextOpen) < 0

\* C5: an open marker with no close marker after it stops the scan: no
\* error, no record from that tail, scanned = the number of open/close pairs
\* before it.  Every closed block before it is processed, whole and in
\* document order, and the cursor moves to just after each close marker, so
\* the blocks are disjoint and increasing.
C5_UnmatchedTailDropped ==
  /\ [](pc = "filter" =>
          /\ scanned <= Len(doc.blocks)
          /\ Slice(raw, cur.ps, cur.pe) = RenderBlock(CurrentBlock)
          /\ block_start = cur.pe)
  /\ [](pc = "done" /\ doc.tail = "open" =>
          /\ scanned = Len(doc.blocks)
          /\ Len(log) = scanned
          /\ Len(programs) = Cardinality({i \in 1..Len(log) : log[i].verdict = "accepted"}))
  /\ [][ pc = "scan" /\ UnmatchedOpen =>
           pc' = "done" /\ UNCHANGED <<scanned, programs, skipped, dup_skipped, log>> ]_vars
  /\ [][ pc = "scan" /\ pc' = "filter" =>
           /\ block_start <= cur'.ps
           /\ cur'.ps < cur'.pe
           /\ block_start' = cur'.pe
           /\ Slice(raw, cur'.pe - Len(close_tag), cur'.pe) = close_tag
           /\ scanned' = scanned + 1 ]_vars

C5_Witness ==
  /\ pc = "done"
  /\ doc.tail = "open"
  /\ scanned = 2
  /\ Len(programs) = 2
  /\ Find(raw, open_tag, block_start) >= 0

HasEscape(v) ==
  \E e \in {ENT_LT, ENT_GT, ENT_AMP, ENT_QUOT, ENT_APOS} : Contains(v, e)

HasCdataWrapper(v) ==
  /\ Contains(v, CDATA_OPEN)
  /\ Find(v, CDATA_CLOSE, Find(v, CDATA_OPEN, 0) + Len(CDATA_OPEN)) >= 0

\* C6 as stated: decode_xml(decode_xml(x)) = decode_xml(x) for every text x.
C6_Idempotent == dpc = "twice" => dz = dy

\* C6 as amended: decode_xml(decode_xml(x)) = decode_xml(x) for every text x
\* whose decoded form contains none of the five escape sequences and no
\* CDATA wrapper.
C6_IdempotentOnPlainText ==
  dpc = "twice" /\ ~HasEscape(dy) /\ ~HasCdataWrapper(dy) => dz = dy

C6_Witness ==
  /\ dpc = "twice"
  /\ Contains(dx, ENT_AMP)
  /\ Contains(dx, <<" ", " ">>)
  /\ dy # dx
  /\ dy # <<>>
  /\ ~HasEscape(dy)
  /\ ~HasCdataWrapper(dy)
  /\ dz = dy

\* the decoded values of the elements listed in values
Values(values) == [i \in 1..Len(values) |-> decode_xml(values[i])]

\* the first non-empty text of texts, or otherwise
FirstNonEmpty(texts, otherwise) ==
  LET good == {i \in 1..Len(texts) : texts[i] # <<>>}
  IN  IF good = {} THEN otherwise ELSE texts[Min(good)]

ExpectedImage(b) ==
  IF b.perspectives = <<>> THEN NO_IMAGE
  ELSE FirstNonEmpty(Values(b.perspectives[1]), NO_IMAGE)

\* C7: get_program_image returns the first non-empty <URL> value inside the
\* <PERSPECTIVES> span, and "NO IMAGE" only when the span is absent or holds
\* no non-empty <URL> value; <URL> elements outside the span are not used.
C7_FirstNonEmptyImage ==
  pc = "filter" => cur.program_image = ExpectedImage(CurrentBlock)

\* the value of the first element listed in values, cleaned
CleanedFirst(values) ==
  IF values = <<>> THEN <<>> ELSE clean_text(decode_xml(values[1]))

ExpectedFallbacks(b) ==
  << CleanedFirst(b.promesse), CleanedFirst(b.court), CleanedFirst(b.long),
     CleanedFirst(b.appel), CleanedFirst(b.nom) >>

ExpectedHighlights(b) ==
  IF b.points_forts = <<>> THEN <<>> ELSE Values(b.points_forts[1])

ExpectedArguments(b) ==
  IF ExpectedHighlights(b) # <<>>
  THEN clean_text(Join(ExpectedHighlights(b), PF_SEP))
  ELSE FirstNonEmpty(ExpectedFallbacks(b), NA)

\* C8: the arguments are the <PF> values of the <POINTS_FORTS> sub-block
\* joined with " | " and cleaned when there are any; otherwise the first
\* non-empty cleaned value of PROMESSE_PROGRAMME, DESCRIPTIF_COURT,
\* DESCRIPTIF_LONG, DESCRIPTIF_CENTRE_D_APPEL, in that order; otherwise the
\* cleaned name; "N/A" exactly when all of those are empty.  <PF> elements
\* outside the sub-block never contribute.
C8_ArgumentsPriority ==
  pc = "filter" =>
    /\ cur.program_arguments = ExpectedArguments(CurrentBlock)
    /\ cur.program_arguments = NA <=>
         /\ ExpectedHighlights(CurrentBlock) = <<>>
         /\ \A i \in 1..5 : ExpectedFallbacks(CurrentBlock)[i] = <<>>

C8_Witness ==
  /\ pc = "filter"
  /\ CurrentBlock.pf_out # <<>>
  /\ CurrentBlock.points_forts = <<>>
  /\ CurrentBlock.promesse # <<>>
  /\ cur.program_arguments = <<"C">>

\* C9: a block is rejected as a duplicate only if an earlier accepted block
\* of the run had the same ref and the same url.
C9_DuplicateOnlyOfSamePair ==
  \A i \in 1..Len(log) :
    log[i].verdict = "duplicate" =>
      \E j \in 1..(i - 1) : log[j].verdict = "accepted" /\ SamePair(i, j)

\* C10: build_program_arguments never returns the empty text, so every
\* emitted record has a non-empty Program_Arguments.
C10_ArgumentsNonEmpty ==
  /\ pc = "filter" => cur.program_arguments # <<>>
  /\ \A k \in 1..Len(programs) : programs[k].Program_Arguments # <<>>

====
